---- MODULE Spec2Model ----
(***************************************************************************)
(* The media pipeline of the encode bot: handle_media (commands/encode.py) *)
(* drives download_media (core/downloader.py), encode_video with its       *)
(* progress monitor (core/ffmpeg.py), upload_encoded_video                 *)
(* (core/uploader.py) and cleanup_temp_files (utils/cleaner.py).           *)
(*                                                                         *)
(* Every job is one invocation of handle_media.  The coroutines of         *)
(* different jobs interleave at their await points; an action is the code  *)
(* a coroutine runs between two awaits at which shared state (the temp     *)
(* directory, the module-level mtproto_client) can be observed.            *)
(***************************************************************************)
EXTENDS Integers, Sequences, FiniteSets, TLC

(***************************************************************************)
(* Program constants                                                       *)
(***************************************************************************)
TELEGRAM_BOT_API_LIMIT == 20971520
TELEGRAM_CLIENT_LIMIT == 2097152000
MAX_FILE_SIZE == TELEGRAM_CLIENT_LIMIT
ENCODING_TIMEOUT == 1800
USE_MTPROTO_FOR_LARGE_FILES == TRUE
\* variant for C9: a threshold of 2 seconds
ShorterInterval == 3 - 1
\* monitor_progress: "if current_loop_time - last_update_time >= 3"
ProgressInterval == 3
\* monitor_progress: "await asyncio.sleep(1)"
PollSleep == 1

(***************************************************************************)
(* Bounds of the model                                                     *)
(***************************************************************************)
\* seconds of event-loop time that may pass, one at a time, during an encode
MaxTicks == 4
\* the same, while two jobs run side by side
ConcTicks == 1
\* calls the environment may make fail while two jobs run side by side
MaxFaults == 1
\* progress records per encoder while two jobs run side by side
ConcSamples == 1
\* progress records one encoder writes to the progress file
MaxSamples == 2
\* depth of the download_with_bot_api / download_with_mtproto call chain
\* (the interpreter's recursion limit)
MaxCalls == 4
\* the event loop's clock (time.monotonic, seconds since boot) when a
\* progress monitor starts
ClockStart == 3

\* config.py DEFAULT_SETTINGS, the columns the encode pipeline and the
\* settings menu use
DEFAULT_SETTINGS ==
    [upload_mode |-> "document", resolution |-> "240", vcodec |-> "x265",
     bits |-> "10", crf |-> "30"]
Columns == DOMAIN DEFAULT_SETTINGS
NoSettings == [c \in Columns |-> "None"]
\* the user_settings table holds no row for the user: fetchone() is None
NoRow == [c \in Columns |-> "None"]
\* the handle_settings_callback coroutines that may be in progress at once
Handlers == {1, 2}
NoData == <<>>

Jobs == {1, 2}
None == "None"
NoPath == <<>>
NoDuration == 0 - 1
NoSize == 0 - 1
Sizes == {NoSize, TELEGRAM_BOT_API_LIMIT, TELEGRAM_BOT_API_LIMIT + 1,
          MAX_FILE_SIZE, MAX_FILE_SIZE + 1}

\* a file name is <<stem, extension>>, a path <<directory, prefix, stem,
\* extension>>
NoName == <<>>
\* download_media: a video is stored as video_<message_id>.mp4, a document
\* under the name its sender gave it
VideoName == (1 :> <<"video_1", "mp4">>) @@ (2 :> <<"video_2", "mp4">>)
DocumentNames == {<<"movie", "mkv">>}
FileNames == {VideoName[j] : j \in Jobs} \cup DocumentNames
Kinds == {"video", "document"}

\* os.path.join(TEMP_DIR, file_name)
InputPath(file_name) == <<"temp", "", file_name[1], file_name[2]>>
\* encode_video: base_name = splitext(basename(input_path))[0];
\* output_path = f"temp/encoded_{base_name}.mp4"
OutputPath(input_path) == <<"temp", "encoded_", input_path[3], "mp4">>
\* run_ffmpeg_with_progress: progress_file = "temp/ffmpeg_progress.txt"
ProgressFile(j) == <<"temp", "", "ffmpeg_progress", "txt">>

InputPaths == {InputPath(n) : n \in FileNames}
OutputPaths == {OutputPath(p) : p \in InputPaths}
AllPaths == InputPaths \cup OutputPaths \cup {ProgressFile(j) : j \in Jobs}

\* what a path holds: nothing, a truncated/partial file, a zero-byte file,
\* a complete file
Contents == {"absent", "partial", "empty", "full"}

VARIABLES
    env,                \* what the run explores (fixed by the initial state)
    PYROGRAM_AVAILABLE, \* downloader.py: the import of pyrogram succeeded
    mtproto_client,     \* downloader.py: the module-level client
    nfaults,            \* failures the environment has produced so far
    disk,               \* the temp directory: path -> content
    progress,           \* lines of the progress file: <<encoder, seconds>>
    writers,            \* per path, the jobs whose pipeline wrote what it holds
    pc,                 \* where each handle_media coroutine stands
    status,             \* text last shown to the user for the job
    editRaised,         \* a message edit or reply of the job has raised
    file_size,          \* declared size of the job's file (download_media local)
    file_name,          \* download_media local
    route,              \* download helpers entered, in call order
    xfers,              \* transports on which a transfer was started
    file_path,          \* handle_media: result of download_media
    output_path,        \* handle_media: result of encode_video
    upload_ok,          \* handle_media: result of upload_encoded_video
    exc,                \* the callee whose exception handle_media caught
    proc,               \* the encoder subprocess of the job
    duration,           \* encode_video: result of get_video_duration
    nsamples,           \* progress records the job's encoder has written
    encStart,           \* event-loop time at which the encoder was started
    monitor,            \* the job's monitor_progress task
    now,                \* event-loop time seen by the job's coroutines
    last_update_time,   \* monitor_progress local
    wake,               \* time at which the monitor's sleep ends
    polls,              \* loop times at which the monitor saw a sample
    emits,              \* progress updates emitted: <<loop time, seconds>>
    user_settings,      \* the user's row of the user_settings table
    settings,           \* handle_media: result of get_user_settings
    uploads,            \* upload functions called for the job
    result,             \* how far the job's pipeline got
    attempts,           \* per job, how often the encoder was launched and
                        \* upload_encoded_video was called
    cb,                 \* the handle_settings_callback coroutines
    lastWrite,          \* per column, the value of the last committed UPDATE
    calc                \* the last call of a pure function and its result

sharedVars == <<env, PYROGRAM_AVAILABLE, user_settings, cb, lastWrite, calc>>
jobVars == <<settings, uploads, result, attempts>>
fsVars == <<disk, progress, writers>>
msgVars == <<status, editRaised>>
dlVars == <<file_size, file_name, route, xfers>>
hmVars == <<file_path, output_path, upload_ok, exc>>
encVars == <<proc, duration, nsamples, encStart>>
monVars == <<monitor, now, last_update_time, wake, polls, emits>>
vars == <<sharedVars, mtproto_client, nfaults, fsVars, msgVars, dlVars, hmVars,
          jobVars, encVars, monVars, pc>>

(***************************************************************************)
(* Helpers                                                                 *)
(***************************************************************************)
Exists(path) == path # NoPath /\ disk[path] # "absent"

\* a status edit of job j: the text is shown, or the call raises
Shown(j, text) ==
    /\ status' = [status EXCEPT ![j] = text]
    /\ UNCHANGED editRaised
Raised(j) ==
    /\ editRaised' = [editRaised EXCEPT ![j] = TRUE]
    /\ UNCHANGED status

Goto(j, label) == pc' = [pc EXCEPT ![j] = label]

\* the environment (network, Telegram API, subprocess) makes n calls fail
Unbounded == 0 - 1
B(ok) == IF ok THEN 0 ELSE 1
Env(n) ==
    /\ env.faults = Unbounded \/ nfaults + n <= env.faults
    /\ nfaults' = IF env.faults = Unbounded THEN nfaults ELSE nfaults + n

\* file written at `path` by the pipeline of job j
Write(path, content, j) ==
    /\ disk' = [disk EXCEPT ![path] = content]
    /\ writers' = [writers EXCEPT ![path] = @ \cup {j}]

\* utils/cleaner.py cleanup_temp_files: remove every listed path that exists
cleanup_temp_files(paths) ==
    /\ disk' = [p \in AllPaths |->
                   IF p \in paths /\ Exists(p) THEN "absent" ELSE disk[p]]
    /\ writers' = [p \in AllPaths |->
                   IF p \in paths /\ Exists(p) THEN {} ELSE writers[p]]

\* the locals of a call are gone once it has returned or raised
DropDownloadLocals(j) ==
    /\ file_size' = [file_size EXCEPT ![j] = NoSize]
    /\ file_name' = [file_name EXCEPT ![j] = NoName]
    /\ route' = [route EXCEPT ![j] = <<>>]
    /\ xfers' = [xfers EXCEPT ![j] = <<>>]
DropMonitorLocals(j) ==
    /\ monitor' = [monitor EXCEPT ![j] = "off"]
    /\ now' = [now EXCEPT ![j] = 0]
    /\ wake' = [wake EXCEPT ![j] = 0]
    /\ last_update_time' = [last_update_time EXCEPT ![j] = 0]
DropHandlerLocals(j) ==
    /\ file_path' = [file_path EXCEPT ![j] = NoPath]
    /\ output_path' = [output_path EXCEPT ![j] = NoPath]
    /\ upload_ok' = [upload_ok EXCEPT ![j] = FALSE]
    /\ exc' = [exc EXCEPT ![j] = None]
    /\ settings' = [settings EXCEPT ![j] = NoSettings]
    /\ uploads' = [uploads EXCEPT ![j] = {}]

TypeOK ==
    /\ PYROGRAM_AVAILABLE \in BOOLEAN
    /\ mtproto_client \in {"none", "starting", "ready"}
    /\ disk \in [AllPaths -> Contents]
    /\ writers \in [AllPaths -> SUBSET Jobs]
    /\ file_size \in [Jobs -> Sizes]
    /\ file_name \in [Jobs -> FileNames \cup {NoName}]
    /\ editRaised \in [Jobs -> BOOLEAN]
    /\ proc \in [Jobs -> {"none", "running", "exit0", "exit1"}]
    /\ monitor \in [Jobs -> {"off", "on"}]

InitJobs ==
    /\ PYROGRAM_AVAILABLE \in BOOLEAN
    /\ mtproto_client = "none"
    /\ nfaults = 0
    /\ disk = [p \in AllPaths |-> "absent"]
    /\ progress = <<>>
    /\ writers = [p \in AllPaths |-> {}]
    /\ pc = [j \in Jobs |-> "idle"]
    /\ file_size = [j \in Jobs |-> NoSize]
    /\ file_name = [j \in Jobs |-> NoName]
    /\ status = [j \in Jobs |-> None]
    /\ editRaised = [j \in Jobs |-> FALSE]
    /\ file_path = [j \in Jobs |-> NoPath]
    /\ output_path = [j \in Jobs |-> NoPath]
    /\ route = [j \in Jobs |-> <<>>]
    /\ xfers = [j \in Jobs |-> <<>>]
    /\ upload_ok = [j \in Jobs |-> FALSE]
    /\ exc = [j \in Jobs |-> None]
    /\ proc = [j \in Jobs |-> "none"]
    /\ duration = [j \in Jobs |-> NoDuration]
    /\ monitor = [j \in Jobs |-> "off"]
    /\ now = [j \in Jobs |-> 0]
    /\ last_update_time = [j \in Jobs |-> 0]
    /\ wake = [j \in Jobs |-> 0]
    /\ encStart = [j \in Jobs |-> 0]
    /\ nsamples = [j \in Jobs |-> 0]
    /\ polls = [j \in Jobs |-> <<>>]
    /\ emits = [j \in Jobs |-> <<>>]
    /\ settings = [j \in Jobs |-> NoSettings]
    /\ uploads = [j \in Jobs |-> {}]
    /\ result = [j \in Jobs |-> "none"]
    /\ attempts = [j \in Jobs |-> [encode |-> 0, upload |-> 0]]
    /\ cb = [h \in Handlers |-> [pc |-> "idle", data |-> NoData, updated |-> FALSE]]
    /\ lastWrite = [c \in Columns |-> None]
    /\ calc = [fn |-> "none", args |-> <<>>, out |-> <<>>]

\* one job at a time, as bot.py's Application dispatches its handlers
Init ==
    /\ InitJobs
    /\ user_settings \in {[DEFAULT_SETTINGS EXCEPT !.upload_mode = m] :
                             m \in {"document", "video"}}
    /\ env = [jobs |-> {1}, concurrent |-> FALSE, trace |-> FALSE,
              ticks |-> MaxTicks, steps |-> {1, ENCODING_TIMEOUT},
              samples |-> MaxSamples, faults |-> Unbounded]

(***************************************************************************)
(* handle_media, up to the call of download_media (encode.py 15-47)        *)
(***************************************************************************)
\* variant for C4: a cap that lets MAX_FILE_SIZE + 1 through
ExceedsMaxFileSizeByTwo(sz) == sz # NoSize /\ sz > MAX_FILE_SIZE + 1
\* encode.py 24-28: "if file_obj and file_obj.file_size: ...
\*                   if file_obj.file_size > MAX_FILE_SIZE:"
ExceedsMaxFileSize(sz) == sz # NoSize /\ sz > MAX_FILE_SIZE

\* models/user_settings.py get_user_settings: the stored row, or a copy of
\* the defaults when the query raises
get_user_settings(read) ==
    IF read /\ user_settings # NoRow THEN user_settings ELSE DEFAULT_SETTINGS

\* the runtime hands a message to handle_media: one update at a time, or
\* (env.concurrent) while the handler of another update is still running
Dispatched(j) ==
    /\ j \in env.jobs
    /\ env.concurrent
          \/ \A k \in Jobs \ {j} : pc[k] \in {"idle", "done", "escaped"}

handle_media(j) ==
    /\ pc[j] = "idle"
    /\ Dispatched(j)
    /\ \E sz \in Sizes, kind \in Kinds, doc \in DocumentNames, ok \in BOOLEAN,
          read \in BOOLEAN :
          /\ Env(B(ok) + B(read))
          /\ settings' = [settings EXCEPT ![j] =
                             IF ~ok \/ ExceedsMaxFileSize(sz) THEN NoSettings
                             ELSE get_user_settings(read)]
          /\ file_size' = [file_size EXCEPT ![j] = sz]
          /\ file_name' = [file_name EXCEPT ![j] =
                              IF kind = "video" THEN VideoName[j] ELSE doc]
          /\ IF ~ok
             THEN \* reply_text raises outside the try block
                  Raised(j) /\ Goto(j, "escaped")
             ELSE IF ExceedsMaxFileSize(sz)
             THEN Shown(j, "FileTooLarge") /\ Goto(j, "done")
             ELSE Shown(j, "Preparing") /\ Goto(j, "download_media")
    /\ UNCHANGED <<sharedVars, uploads, result, attempts, mtproto_client, fsVars,
                   route, xfers, hmVars, encVars, monVars>>

(***************************************************************************)
(* core/downloader.py                                                      *)
(***************************************************************************)
\* downloader.py 60: "if file_size and file_size > MAX_FILE_SIZE"
OverMaxFileSize(sz) == sz # NoSize /\ sz > MAX_FILE_SIZE
\* variant for C3: the comparison of line 76 with >= in place of >
use_mtproto_from_limit(sz) ==
    /\ sz # NoSize
    /\ sz >= TELEGRAM_BOT_API_LIMIT
    /\ PYROGRAM_AVAILABLE
    /\ USE_MTPROTO_FOR_LARGE_FILES
\* downloader.py 76-77
use_mtproto(sz) ==
    /\ sz # NoSize
    /\ sz > TELEGRAM_BOT_API_LIMIT
    /\ PYROGRAM_AVAILABLE
    /\ USE_MTPROTO_FOR_LARGE_FILES
\* downloader.py 99: "if file_size and file_size > TELEGRAM_BOT_API_LIMIT"
OverBotApiLimit(sz) == sz # NoSize /\ sz > TELEGRAM_BOT_API_LIMIT

\* a nested call of a download helper: the call chain gets one deeper, or
\* the interpreter's recursion limit is hit and RecursionError unwinds to
\* the except clause of download_media
CallHelper(j, helper) ==
    IF Len(route[j]) < MaxCalls
    THEN route' = [route EXCEPT ![j] = Append(@, helper)] /\ Goto(j, helper)
    ELSE UNCHANGED route /\ Goto(j, "download_except")

download_media(j) ==
    /\ pc[j] = "download_media"
    /\ IF OverMaxFileSize(file_size[j])
       THEN \E ok \in BOOLEAN :
               /\ Env(B(ok))
               /\ IF ok THEN Shown(j, "FileTooLargeMax") /\ Goto(j, "downloaded")
                        ELSE Raised(j) /\ Goto(j, "download_except")
               /\ UNCHANGED route
       ELSE IF use_mtproto(file_size[j])
       THEN CallHelper(j, "mtproto") /\ UNCHANGED <<msgVars, nfaults>>
       ELSE IF file_size[j] = NoSize
       THEN \* line 83 divides file_size, which is None: TypeError
            Goto(j, "download_except") /\ UNCHANGED <<route, msgVars, nfaults>>
       ELSE CallHelper(j, "bot_api") /\ UNCHANGED <<msgVars, nfaults>>
    /\ UNCHANGED <<sharedVars, jobVars, mtproto_client, fsVars, file_size, file_name,
                   xfers, hmVars, encVars, monVars>>

download_with_bot_api(j) ==
    /\ pc[j] = "bot_api"
    /\ \E ok \in BOOLEAN :
          /\ Env(B(ok))
          /\ IF ~ok
             THEN \* the edit raises; line 142 re-raises it
                  Raised(j) /\ Goto(j, "download_except") /\ UNCHANGED xfers
             ELSE IF OverBotApiLimit(file_size[j])
             THEN /\ Shown(j, "TooLargeBotApi")
                  /\ Goto(j, "downloaded")
                  /\ UNCHANGED xfers
             ELSE /\ Shown(j, "DownloadingBotApi")
                  /\ xfers' = [xfers EXCEPT ![j] = Append(@, "bot_api")]
                  /\ Goto(j, "bot_api_transfer")
    /\ UNCHANGED <<sharedVars, jobVars, mtproto_client, fsVars, file_size, file_name,
                   route, hmVars, encVars, monVars>>

\* get_file / download_to_drive return or raise (downloader.py 118-142)
bot_api_transfer(j) ==
    /\ pc[j] = "bot_api_transfer"
    /\ LET path == InputPath(file_name[j]) IN
       \E outcome \in {"ok", "ok_edit_raises", "too_big", "error", "error_partial"} :
          /\ Env(B(outcome = "ok"))
          /\ CASE outcome = "ok" ->
                  /\ Write(path, "full", j)
                  /\ Shown(j, "DownloadedBotApi")
                  /\ file_path' = [file_path EXCEPT ![j] = path]
                  /\ Goto(j, "downloaded")
                  /\ UNCHANGED route
               [] outcome = "ok_edit_raises" ->
                  /\ Write(path, "full", j)
                  /\ Raised(j)
                  /\ Goto(j, "download_except")
                  /\ UNCHANGED <<file_path, route>>
               [] outcome = "too_big" ->
                  \* "File is too big" in str(e): try the other transport
                  /\ CallHelper(j, "mtproto")
                  /\ UNCHANGED <<disk, writers, msgVars, file_path>>
               [] outcome = "error" ->
                  /\ Goto(j, "download_except")
                  /\ UNCHANGED <<disk, writers, msgVars, file_path, route>>
               [] outcome = "error_partial" ->
                  /\ Write(path, "partial", j)
                  /\ Goto(j, "download_except")
                  /\ UNCHANGED <<msgVars, file_path, route>>
    /\ UNCHANGED <<sharedVars, jobVars, mtproto_client, progress, file_size, file_name,
                   xfers, output_path, upload_ok, exc, encVars, monVars>>

\* downloader.py 146-171, with init_mtproto_client (19-33) up to its await
download_with_mtproto(j) ==
    /\ pc[j] = "mtproto"
    /\ IF ~PYROGRAM_AVAILABLE
       THEN \E ok \in BOOLEAN :
               /\ Env(B(ok))
               /\ IF ok THEN Shown(j, "NoPyrogram") /\ Goto(j, "downloaded")
                        ELSE Raised(j) /\ Goto(j, "mtproto_except")
               /\ UNCHANGED mtproto_client
       ELSE IF USE_MTPROTO_FOR_LARGE_FILES /\ mtproto_client = "none"
       THEN \* the global is assigned before "await mtproto_client.start()"
            /\ mtproto_client' = "starting"
            /\ Goto(j, "mtproto_init")
            /\ UNCHANGED <<msgVars, nfaults>>
       ELSE \E ok \in BOOLEAN :
               /\ Env(B(ok))
               /\ IF ok THEN Shown(j, "DownloadingMTProto")
                             /\ Goto(j, "mtproto_ready")
                        ELSE Raised(j) /\ Goto(j, "mtproto_except")
               /\ UNCHANGED mtproto_client
    /\ UNCHANGED <<sharedVars, jobVars, fsVars, dlVars, hmVars, encVars, monVars>>

\* init_mtproto_client 34-38: start() returns or raises; then 158-171
init_mtproto_client(j) ==
    /\ pc[j] = "mtproto_init"
    /\ \E started \in BOOLEAN, ok \in BOOLEAN :
          /\ Env(B(started) + B(ok))
          /\ mtproto_client' = IF started THEN "ready" ELSE "none"
          /\ IF ~ok
             THEN Raised(j) /\ Goto(j, "mtproto_except")
             ELSE IF started
             THEN Shown(j, "DownloadingMTProto") /\ Goto(j, "mtproto_ready")
             ELSE Shown(j, "ClientInitFailed") /\ Goto(j, "downloaded")
    /\ UNCHANGED <<sharedVars, jobVars, fsVars, dlVars, hmVars, encVars, monVars>>

\* downloader.py 174-183: the call on the module-level client
mtproto_start_transfer(j) ==
    /\ pc[j] = "mtproto_ready"
    /\ IF mtproto_client = "none"
       THEN \* None has no download_media: AttributeError
            Goto(j, "mtproto_except") /\ UNCHANGED xfers
       ELSE /\ xfers' = [xfers EXCEPT ![j] = Append(@, "mtproto")]
            /\ Goto(j, "mtproto_transfer")
    /\ UNCHANGED <<sharedVars, jobVars, mtproto_client, nfaults, fsVars, msgVars,
                   file_size, file_name, route, hmVars, encVars, monVars>>

\* downloader.py 180-199: the transfer returns or raises
mtproto_transfer(j) ==
    /\ pc[j] = "mtproto_transfer"
    /\ LET path == InputPath(file_name[j]) IN
       \E outcome \in {"ok", "ok_edit_raises", "error", "error_partial"} :
          /\ Env(B(outcome = "ok"))
          /\ CASE outcome = "ok" ->
                  /\ Write(path, "full", j)
                  /\ Shown(j, "DownloadedMTProto")
                  /\ file_path' = [file_path EXCEPT ![j] = path]
                  /\ Goto(j, "downloaded")
               [] outcome = "ok_edit_raises" ->
                  /\ Write(path, "full", j)
                  /\ Raised(j)
                  /\ Goto(j, "mtproto_except")
                  /\ UNCHANGED file_path
               [] outcome = "error" ->
                  /\ Goto(j, "mtproto_except")
                  /\ UNCHANGED <<disk, writers, msgVars, file_path>>
               [] outcome = "error_partial" ->
                  /\ Write(path, "partial", j)
                  /\ Goto(j, "mtproto_except")
                  /\ UNCHANGED <<msgVars, file_path>>
    /\ UNCHANGED <<sharedVars, jobVars, mtproto_client, progress, dlVars, output_path,
                   upload_ok, exc, encVars, monVars>>

\* downloader.py 201-210: any failure falls back to the other helper
mtproto_except(j) ==
    /\ pc[j] = "mtproto_except"
    /\ \E ok \in BOOLEAN :
          /\ Env(B(ok))
          /\ IF ok THEN Shown(j, "MTProtoFallback") /\ CallHelper(j, "bot_api")
                   ELSE Raised(j) /\ Goto(j, "download_except")
                        /\ UNCHANGED route
    /\ UNCHANGED <<sharedVars, jobVars, mtproto_client, fsVars, file_size, file_name,
                   xfers, hmVars, encVars, monVars>>

\* downloader.py 86-93: the except clause of download_media
download_except(j) ==
    /\ pc[j] = "download_except"
    /\ \E ok \in BOOLEAN :
          /\ Env(B(ok))
          /\ IF ok THEN /\ Shown(j, "DownloadFailedExc")
                        /\ Goto(j, "downloaded")
                        /\ UNCHANGED exc
                   ELSE \* this edit is not inside any try of download_media
                        /\ Raised(j)
                        /\ Goto(j, "handler_except")
                        /\ exc' = [exc EXCEPT ![j] = "download_media"]
    /\ UNCHANGED <<sharedVars, jobVars, mtproto_client, fsVars, dlVars, file_path,
                   output_path, upload_ok, encVars, monVars>>

\* variant for C2: a missing file path is not taken as a failure
download_failed_ignored(path) == FALSE
\* encode.py 49: "if not file_path"
download_failed(path) == path = NoPath

\* encode.py 47-76: download_media has returned
after_download(j) ==
    /\ pc[j] = "downloaded"
    /\ DropDownloadLocals(j)
    /\ \E ok \in BOOLEAN :
          /\ Env(B(ok))
          /\ IF ~ok
             THEN /\ Raised(j)
                  /\ Goto(j, "handler_except")
                  /\ exc' = [exc EXCEPT ![j] = "handle_media"]
                  /\ UNCHANGED <<settings, result>>
             ELSE IF download_failed(file_path[j])
             THEN /\ Shown(j, "DownloadFailed") /\ Goto(j, "done")
                  /\ settings' = [settings EXCEPT ![j] = NoSettings]
                  /\ result' = [result EXCEPT ![j] = "no_file"]
                  /\ UNCHANGED exc
             ELSE /\ Shown(j, "StartingEncoding") /\ Goto(j, "encode_video")
                  /\ UNCHANGED <<exc, settings, result>>
    /\ UNCHANGED <<sharedVars, uploads, attempts, mtproto_client, fsVars, file_path,
                   output_path, upload_ok, encVars, monVars>>

(***************************************************************************)
(* core/ffmpeg.py                                                          *)
(***************************************************************************)
\* get_video_duration: None, or the length of the input in seconds
Durations == {NoDuration, MaxSamples}

\* extract_progress_time: the first out_time line of the content, or None
extract_progress_time(content) ==
    IF content = <<>> THEN NoDuration ELSE content[1][2]

\* variant for C26: the monitor task is created whatever the probe returned
monitor_started_always(dur) == TRUE
\* ffmpeg.py 70: "if duration and status_message"
monitor_started(dur) == dur # NoDuration

\* ffmpeg.py 12-33 and 46-76: ffprobe, then the subprocess is started (it
\* opens the progress file) and the monitor task is created
encode_video(j) ==
    /\ pc[j] = "encode_video"
    /\ \E dur \in Durations, started \in BOOLEAN :
          /\ Env(B(dur # NoDuration) + B(started))
          /\ IF started
             THEN /\ proc' = [proc EXCEPT ![j] = "running"]
                  /\ duration' = [duration EXCEPT ![j] = dur]
                  /\ Write(ProgressFile(j), "empty", j)
                  /\ progress' = <<>>
                  /\ monitor' = [monitor EXCEPT ![j] =
                                    IF monitor_started(dur) THEN "on" ELSE "off"]
                  /\ now' = [now EXCEPT ![j] = ClockStart]
                  /\ encStart' = [encStart EXCEPT ![j] = ClockStart]
                  /\ wake' = [wake EXCEPT ![j] = ClockStart]
                  /\ attempts' = [attempts EXCEPT ![j].encode = @ + 1]
                  /\ Goto(j, "encoding")
             ELSE \* create_subprocess_exec raises
                  /\ Goto(j, "run_except")
                  /\ UNCHANGED <<fsVars, proc, duration, monitor, now, encStart,
                                 wake, attempts>>
    /\ UNCHANGED <<sharedVars, settings, uploads, result, mtproto_client, msgVars,
                   dlVars, hmVars, nsamples, last_update_time, polls, emits>>

\* handle_media is awaiting encode_video.  An encoder that encode_video has
\* left behind stays "running"; what it does after that is not followed.
InEncodeVideo(j) == pc[j] \in {"encoding", "run_except", "encoded"}

\* the encoder appends a progress record to the file it has opened
encoder_progress(j) ==
    /\ proc[j] = "running"
    /\ InEncodeVideo(j)
    /\ nsamples[j] < env.samples
    /\ nsamples' = [nsamples EXCEPT ![j] = @ + 1]
    /\ progress' = IF Exists(ProgressFile(j))
                   THEN Append(progress, <<j, nsamples[j] + 1>>)
                   ELSE progress
    /\ UNCHANGED <<sharedVars, jobVars, mtproto_client, nfaults, disk, writers, msgVars,
                   dlVars, hmVars, proc, duration, encStart, monVars, pc>>

\* the encoder exits: return code, and what it leaves at the output path
encoder_exit(j) ==
    /\ proc[j] = "running"
    /\ InEncodeVideo(j)
    /\ \E rc \in {"exit0", "exit1"}, out \in {"full", "empty", "partial", "keep"} :
          /\ rc = "exit0" => out # "partial"
          /\ rc = "exit1" => out # "full"
          /\ Env(B(rc = "exit0" /\ out = "full"))
          /\ proc' = [proc EXCEPT ![j] = rc]
          /\ IF out = "keep"
             THEN UNCHANGED <<disk, writers>>
             ELSE Write(OutputPath(file_path[j]), out, j)
    /\ UNCHANGED <<sharedVars, jobVars, mtproto_client, progress, msgVars, dlVars,
                   hmVars, duration, nsamples, encStart, monVars, pc>>

\* event-loop time advances while run_ffmpeg_with_progress awaits
tick(j) ==
    /\ pc[j] = "encoding"
    /\ \E d \in env.steps :
          /\ IF d = 1
             THEN (now[j] - encStart[j]) % ENCODING_TIMEOUT < env.ticks
             ELSE now[j] - encStart[j] < d
          /\ now' = [now EXCEPT ![j] = @ + d]
    /\ UNCHANGED <<sharedVars, jobVars, mtproto_client, nfaults, fsVars, msgVars, dlVars,
                   hmVars, encVars, monitor, last_update_time, wake, polls,
                   emits, pc>>

\* ffmpeg.py 131-154: one iteration of the loop of monitor_progress, with
\* update_encoding_progress, which swallows a failing edit.  The task runs
\* until it is cancelled, whatever handle_media is doing.
monitor_progress(j) ==
    /\ monitor[j] = "on"
    /\ now[j] >= wake[j]
    /\ LET current_time ==
               IF Exists(ProgressFile(j)) THEN extract_progress_time(progress)
                                          ELSE NoDuration
           sampled == current_time # NoDuration /\ duration[j] > 0
           due == sampled /\ now[j] - last_update_time[j] >= ProgressInterval
       IN  /\ IF due
              THEN /\ \E ok \in BOOLEAN :
                         /\ Env(B(ok))
                         /\ IF ok THEN Shown(j, "EncodingProgress")
                                  ELSE Raised(j)
                   /\ last_update_time' = [last_update_time EXCEPT ![j] = now[j]]
              ELSE UNCHANGED <<msgVars, nfaults, last_update_time>>
           /\ polls' = IF env.trace /\ sampled
                       THEN [polls EXCEPT ![j] = Append(@, now[j])]
                       ELSE polls
           /\ emits' = IF env.trace /\ due
                       THEN [emits EXCEPT ![j] = Append(@, <<now[j], current_time>>)]
                       ELSE emits
    /\ wake' = [wake EXCEPT ![j] = now[j] + PollSleep]
    /\ UNCHANGED <<sharedVars, jobVars, mtproto_client, fsVars, dlVars, hmVars, encVars,
                   monitor, now, pc>>

\* ffmpeg.py 76: "await process.communicate()" returns when the subprocess
\* has exited
Exited(j) == proc[j] \in {"exit0", "exit1"}

\* ffmpeg.py 76-112 and 35-40: communicate() returns once the subprocess has
\* exited; the monitor is cancelled, the progress file removed, the result
\* reported, and encode_video checks the output
communicate_returns(j) ==
    /\ pc[j] = "encoding"
    /\ Exited(j)
    /\ DropMonitorLocals(j)
    /\ encStart' = [encStart EXCEPT ![j] = 0]
    /\ cleanup_temp_files({ProgressFile(j)})
    /\ progress' = IF Exists(ProgressFile(j)) THEN <<>> ELSE progress
    /\ LET out == OutputPath(file_path[j])
           success == proc[j] = "exit0"
       IN  \E ok \in BOOLEAN :
              /\ Env(B(ok))
              /\ IF ~ok
                 THEN Raised(j) /\ Goto(j, "run_except") /\ UNCHANGED output_path
                 ELSE /\ Shown(j, IF success THEN "EncodeCompleted"
                                             ELSE "EncodeFailedStderr")
                      /\ output_path' = [output_path EXCEPT ![j] =
                             IF success /\ Exists(out) THEN out ELSE NoPath]
                      /\ Goto(j, "encoded")
    /\ UNCHANGED <<sharedVars, jobVars, mtproto_client, dlVars, file_path, upload_ok, exc,
                   proc, duration, nsamples, polls, emits>>

\* ffmpeg.py 76 and 114: "await process.communicate()" raises (a pipe read
\* error, MemoryError); control passes to the except clause, past the lines
\* 79-91 that cancel the monitor and remove the progress file.  The
\* subprocess is not waited for: it may be running or have exited.
communicate_raises(j) ==
    /\ pc[j] = "encoding"
    /\ Env(1)
    /\ Goto(j, "run_except")
    /\ UNCHANGED <<sharedVars, jobVars, mtproto_client, fsVars, msgVars, dlVars,
                   hmVars, encVars, monVars>>

\* ffmpeg.py 114-123 and 42-44: the except clause of
\* run_ffmpeg_with_progress; encode_video swallows what escapes from it
run_except(j) ==
    /\ pc[j] = "run_except"
    /\ \E ok \in BOOLEAN :
          /\ Env(B(ok))
          /\ IF ok THEN Shown(j, "EncodeErrorExc") ELSE Raised(j)
    /\ output_path' = [output_path EXCEPT ![j] = NoPath]
    /\ Goto(j, "encoded")
    /\ UNCHANGED <<sharedVars, jobVars, mtproto_client, fsVars, dlVars, file_path,
                   upload_ok, exc, encVars, monVars>>

\* variant for C21: a missing output path is not taken as a failure
encode_failed_ignored(path) == FALSE
\* encode.py 80: "if not output_path"
encode_failed(path) == path = NoPath

\* encode.py 78-136: encode_video has returned.  Its locals are gone, except
\* those of a subprocess or a monitor task that it has left running.
after_encode(j) ==
    /\ pc[j] = "encoded"
    /\ proc' = [proc EXCEPT ![j] = IF @ = "running" THEN @ ELSE "none"]
    /\ nsamples' = [nsamples EXCEPT ![j] = IF proc[j] = "running" THEN @ ELSE 0]
    /\ duration' = [duration EXCEPT ![j] =
                        IF monitor[j] = "on" THEN @ ELSE NoDuration]
    /\ polls' = [polls EXCEPT ![j] = IF monitor[j] = "on" THEN @ ELSE <<>>]
    /\ emits' = [emits EXCEPT ![j] = IF monitor[j] = "on" THEN @ ELSE <<>>]
    /\ IF output_path[j] = NoPath \/ Exists(output_path[j])
       THEN \E ok \in BOOLEAN :
               /\ Env(B(ok))
               /\ IF ~ok
                  THEN /\ Raised(j)
                       /\ Goto(j, "handler_except")
                       /\ exc' = [exc EXCEPT ![j] = "handle_media"]
                       /\ UNCHANGED <<disk, writers, file_path, output_path,
                                      upload_ok, jobVars>>
                  ELSE IF encode_failed(output_path[j])
                  THEN /\ Shown(j, "EncodingFailed")
                       /\ cleanup_temp_files({file_path[j]})
                       /\ DropHandlerLocals(j)
                       /\ result' = [result EXCEPT ![j] = "no_output"]
                       /\ UNCHANGED attempts
                       /\ Goto(j, "done")
                  ELSE /\ Shown(j, "EncodingCompletedStats")
                       /\ Goto(j, "upload")
                       /\ UNCHANGED <<disk, writers, hmVars, jobVars>>
       ELSE \* the output is gone: no statistics edit
            /\ Goto(j, "upload")
            /\ UNCHANGED <<nfaults, disk, writers, msgVars, hmVars, jobVars>>
    /\ UNCHANGED <<sharedVars, mtproto_client, progress, dlVars, encStart,
                   monitor, now, last_update_time, wake>>

(***************************************************************************)
(* core/uploader.py                                                        *)
(***************************************************************************)
\* uploader.py 7-30: existence check and the first status edit
upload_encoded_video(j) ==
    /\ pc[j] = "upload"
    /\ attempts' = [attempts EXCEPT ![j].upload = @ + 1]
    /\ IF ~Exists(output_path[j])
       THEN /\ upload_ok' = [upload_ok EXCEPT ![j] = FALSE]
            /\ result' = [result EXCEPT ![j] = "not_delivered"]
            /\ Goto(j, "uploaded")
            /\ UNCHANGED <<msgVars, nfaults>>
       ELSE \E ok \in BOOLEAN :
               /\ Env(B(ok))
               /\ IF ok THEN /\ Shown(j, "UploadingFile")
                             /\ Goto(j, "uploading")
                             /\ UNCHANGED result
                        ELSE /\ Raised(j)
                             /\ Goto(j, "upload_except")
                             /\ result' = [result EXCEPT ![j] = "not_delivered"]
               /\ UNCHANGED upload_ok
    /\ UNCHANGED <<sharedVars, settings, uploads, mtproto_client, fsVars, dlVars, file_path,
                   output_path, exc, encVars, monVars>>

\* variant for C17: the two branches of the mode test exchanged
upload_call_swapped(upload_mode) ==
    IF upload_mode = "video" THEN "send_document" ELSE "send_video"
\* uploader.py 30-34: "if settings['upload_mode'] == 'video'" picks
\* upload_as_video (send_video), anything else upload_as_document
\* (send_document)
upload_call(upload_mode) ==
    IF upload_mode = "video" THEN "send_video" ELSE "send_document"

\* upload_as_video / upload_as_document: every exception becomes False
upload_send(j) ==
    /\ pc[j] = "uploading"
    /\ \E outcome \in {"sent", "edit_raises", "send_raises"} :
          /\ Env(B(outcome = "sent"))
          /\ IF outcome = "edit_raises" THEN Raised(j)
                                        ELSE Shown(j, "UploadingAs")
          /\ upload_ok' = [upload_ok EXCEPT ![j] = (outcome = "sent")]
          /\ result' = [result EXCEPT ![j] =
                           IF outcome = "sent" THEN "delivered"
                                               ELSE "not_delivered"]
          /\ uploads' = [uploads EXCEPT ![j] =
                            IF outcome = "edit_raises" THEN @
                            ELSE @ \cup {upload_call(settings[j].upload_mode)}]
    /\ Goto(j, "upload_result")
    /\ UNCHANGED <<sharedVars, settings, attempts, mtproto_client, fsVars, dlVars, file_path,
                   output_path, exc, encVars, monVars>>

\* uploader.py 37-51: the edit that reports the result
upload_result(j) ==
    /\ pc[j] = "upload_result"
    /\ \E ok \in BOOLEAN :
          /\ Env(B(ok))
          /\ IF ok THEN /\ Shown(j, IF upload_ok[j] THEN "UploadCompleted"
                                                     ELSE "UploadFailedShort")
                        /\ Goto(j, "uploaded")
                   ELSE Raised(j) /\ Goto(j, "upload_except")
    /\ UNCHANGED <<sharedVars, jobVars, mtproto_client, fsVars, dlVars, hmVars, encVars,
                   monVars>>

\* uploader.py 53-56: the except clause of upload_encoded_video
upload_except(j) ==
    /\ pc[j] = "upload_except"
    /\ upload_ok' = [upload_ok EXCEPT ![j] = FALSE]
    /\ \E ok \in BOOLEAN :
          /\ Env(B(ok))
          /\ IF ok THEN /\ Shown(j, "UploadError")
                        /\ Goto(j, "uploaded")
                        /\ UNCHANGED exc
                   ELSE /\ Raised(j)
                        /\ Goto(j, "handler_except")
                        /\ exc' = [exc EXCEPT ![j] = "upload_encoded_video"]
    /\ UNCHANGED <<sharedVars, jobVars, mtproto_client, fsVars, dlVars, file_path,
                   output_path, encVars, monVars>>

(***************************************************************************)
(* handle_media, after the upload (encode.py 138-210)                      *)
(***************************************************************************)
\* variant for C18: the failure branch repeats the uploader's error text
final_status_raw(success) ==
    IF success THEN "ProcessingComplete" ELSE "UploadError"
\* encode.py 144-179: the final status
final_status(success) ==
    IF success THEN "ProcessingComplete" ELSE "UploadFailed"

\* encode.py 144-182: final status, then cleanup of input and output
after_upload(j) ==
    /\ pc[j] = "uploaded"
    /\ \E ok \in BOOLEAN :
          /\ Env(B(ok))
          /\ IF ok
             THEN /\ Shown(j, final_status(upload_ok[j]))
                  /\ cleanup_temp_files({file_path[j], output_path[j]})
                  /\ DropHandlerLocals(j)
                  /\ Goto(j, "done")
             ELSE /\ Raised(j)
                  /\ Goto(j, "handler_except")
                  /\ exc' = [exc EXCEPT ![j] = "handle_media"]
                  /\ UNCHANGED <<disk, writers, file_path, output_path,
                                 upload_ok, settings, uploads>>
    /\ UNCHANGED <<sharedVars, result, attempts, mtproto_client, progress, dlVars,
                   encVars, monVars>>

\* encode.py 187-210: "except Exception": report, then cleanup_temp_files([])
handler_except(j) ==
    /\ pc[j] = "handler_except"
    /\ DropDownloadLocals(j)
    /\ DropHandlerLocals(j)
    /\ \E ok \in BOOLEAN :
          /\ Env(B(ok))
          /\ IF ok THEN /\ Shown(j, "ProcessingError")
                        /\ cleanup_temp_files({})
                        /\ Goto(j, "done")
                   ELSE \* the edit raises inside the except clause
                        /\ Raised(j)
                        /\ Goto(j, "escaped")
                        /\ UNCHANGED <<disk, writers>>
    /\ UNCHANGED <<sharedVars, result, attempts, mtproto_client, progress, encVars,
                   monVars>>

(***************************************************************************)
(* Specifications                                                          *)
(***************************************************************************)
Step(j) ==
    \/ handle_media(j)
    \/ download_media(j)
    \/ download_with_bot_api(j)
    \/ bot_api_transfer(j)
    \/ download_with_mtproto(j)
    \/ init_mtproto_client(j)
    \/ mtproto_start_transfer(j)
    \/ mtproto_transfer(j)
    \/ mtproto_except(j)
    \/ download_except(j)
    \/ after_download(j)
    \/ encode_video(j)
    \/ encoder_progress(j)
    \/ encoder_exit(j)
    \/ tick(j)
    \/ monitor_progress(j)
    \/ communicate_returns(j)
    \/ communicate_raises(j)
    \/ run_except(j)
    \/ after_encode(j)
    \/ upload_encoded_video(j)
    \/ upload_send(j)
    \/ upload_result(j)
    \/ upload_except(j)
    \/ after_upload(j)
    \/ handler_except(j)

Next == \E j \in Jobs : Step(j)

Spec == Init /\ [][Next]_vars

\* one job whose progress polls and updates are recorded
InitMonitor ==
    /\ InitJobs
    /\ user_settings = DEFAULT_SETTINGS
    /\ env = [jobs |-> {1}, concurrent |-> FALSE, trace |-> TRUE,
              ticks |-> MaxTicks, steps |-> {1}, samples |-> MaxSamples,
              faults |-> Unbounded]

SpecMonitor == InitMonitor /\ [][Next]_vars

\* two updates whose handlers overlap
InitConcurrent ==
    /\ InitJobs
    /\ user_settings = DEFAULT_SETTINGS
    /\ env = [jobs |-> Jobs, concurrent |-> TRUE, trace |-> FALSE,
              ticks |-> ConcTicks, steps |-> {1}, samples |-> ConcSamples,
              faults |-> MaxFaults]

SpecConcurrent == InitConcurrent /\ [][Next]_vars

(***************************************************************************)
(* core/ffmpeg.py: the pure functions                                      *)
(***************************************************************************)
\* everything but calc
pipelineVars ==
    <<env, PYROGRAM_AVAILABLE, user_settings, cb, lastWrite, mtproto_client,
      nfaults, fsVars, msgVars, dlVars, hmVars, jobVars, encVars, monVars, pc>>

\* update_encoding_progress 195: min((current_seconds / total_seconds) * 100,
\* 100), here in thousandths of a percent, rounded down
progress_percent(current_seconds, total_seconds) ==
    LET p == (current_seconds * 100000) \div total_seconds
    IN  IF p < 100000 THEN p ELSE 100000

\* total durations and current-time samples, in seconds
Totals == {1, 3, 10}
Samples == {0 - 3600, 0 - 1, 0, 1, 2, 3, 9, 10, 11, 3600}

\* A time string is the sequence of its characters.
DigitChars == <<"0", "1", "2", "3", "4", "5", "6", "7", "8", "9">>
IsDigit(c) == \E i \in 1..Len(DigitChars) : DigitChars[i] = c
DigitVal(c) == (CHOOSE i \in 1..Len(DigitChars) : DigitChars[i] = c) - 1

\* the position of the first sep in s, or 0
RECURSIVE Find(_, _, _)
Find(s, sep, i) ==
    IF i > Len(s) THEN 0
    ELSE IF s[i] = sep THEN i
    ELSE Find(s, sep, i + 1)

\* str.split(sep)
RECURSIVE Split(_, _)
Split(s, sep) ==
    LET i == Find(s, sep, 1)
    IN  IF i = 0 THEN <<s>>
        ELSE <<SubSeq(s, 1, i - 1)>> \o Split(SubSeq(s, i + 1, Len(s)), sep)

RECURSIVE DigitsValue(_)
DigitsValue(s) ==
    IF s = <<>> THEN 0
    ELSE 10 * DigitsValue(SubSeq(s, 1, Len(s) - 1)) + DigitVal(s[Len(s)])

\* int(str): an optional sign, then one digit or more; anything else raises
IntParses(s) ==
    LET body == IF s # <<>> /\ s[1] \in {"-", "+"} THEN Tail(s) ELSE s
    IN  body # <<>> /\ \A i \in 1..Len(body) : IsDigit(body[i])
IntValue(s) ==
    IF s[1] = "-" THEN 0 - DigitsValue(Tail(s))
    ELSE IF s[1] = "+" THEN DigitsValue(Tail(s))
    ELSE DigitsValue(s)

\* str(n) of a natural number
RECURSIVE NatStr(_)
NatStr(n) ==
    IF n < 10 THEN <<DigitChars[n + 1]>>
    ELSE NatStr(n \div 10) \o <<DigitChars[(n % 10) + 1]>>

\* f"{n:02d}": the sign counts towards the width of two
Format02d(n) ==
    IF n < 0 THEN <<"-">> \o NatStr(0 - n)
    ELSE IF n < 10 THEN <<"0">> \o NatStr(n)
    ELSE NatStr(n)

\* time_to_seconds 238-260 of a str argument: the fraction is cut off, the
\* fields are split at ":", and every exception gives 0
time_to_seconds(time_str) ==
    LET cut   == IF Find(time_str, ".", 1) # 0
                 THEN Split(time_str, ".")[1] ELSE time_str
        parts == Split(cut, ":")
    IN  IF Len(parts) = 3
        THEN IF \A i \in 1..3 : IntParses(parts[i])
             THEN IntValue(parts[1]) * 3600 + IntValue(parts[2]) * 60
                      + IntValue(parts[3])
             ELSE 0
        ELSE IF Len(parts) = 2
        THEN IF \A i \in 1..2 : IntParses(parts[i])
             THEN IntValue(parts[1]) * 60 + IntValue(parts[2])
             ELSE 0
        ELSE IF IntParses(parts[1]) THEN IntValue(parts[1]) ELSE 0

\* variant for C12
seconds_to_time_minutes_of_total(seconds) ==
    Format02d(seconds \div 3600) \o <<":">> \o Format02d(seconds \div 60)
        \o <<":">> \o Format02d(seconds % 60)

\* seconds_to_time 262-269 of an int
seconds_to_time(seconds) ==
    Format02d(seconds \div 3600) \o <<":">>
        \o Format02d((seconds % 3600) \div 60) \o <<":">>
        \o Format02d(seconds % 60)

\* the placeholder of update_encoding_progress 207, as a string of one piece
Calculating == <<"Calculating...">>

\* update_encoding_progress 201-207: the text after "Remaining: ~".  The
\* quotient elapsed / (percent / 100) is taken on the unrounded percentage,
\* so that it is current * total / current; the code's floats agree with it
\* for the durations of Totals.
remaining_str(current_seconds, total_seconds) ==
    LET percent == progress_percent(current_seconds, total_seconds)
    IN  IF percent > 0 /\ percent < 100000
        THEN LET elapsed_time == current_seconds
                 estimated_total ==
                     (elapsed_time * total_seconds) \div current_seconds
                 remaining_time ==
                     IF estimated_total - elapsed_time > 0
                     THEN estimated_total - elapsed_time ELSE 0
             IN  seconds_to_time(remaining_time)
        ELSE Calculating

\* the monitor calls update_encoding_progress for two successive samples
update_encoding_progress ==
    /\ \E total \in Totals, c1 \in Samples, c2 \in Samples :
          /\ c1 <= c2
          /\ calc' = [fn |-> "update_encoding_progress",
                      args |-> <<c1, c2, total>>,
                      out |-> <<progress_percent(c1, total),
                                progress_percent(c2, total),
                                remaining_str(c1, total),
                                remaining_str(c2, total)>>]
    /\ UNCHANGED pipelineVars

\* zero-padded HH:MM:SS strings, and malformed ones
Hours == {0, 1, 9, 10, 23, 99}
Minutes == {0, 1, 9, 30, 59}
Seconds == {0, 7, 59}
TwoDigits(n) == <<DigitChars[(n \div 10) + 1], DigitChars[(n % 10) + 1]>>
HHMMSS(h, m, sec) ==
    TwoDigits(h) \o <<":">> \o TwoDigits(m) \o <<":">> \o TwoDigits(sec)
WellFormed == {HHMMSS(h, m, sec) : h \in Hours, m \in Minutes, sec \in Seconds}
Malformed ==
    {<<>>, <<"a", "b", "c">>, <<":">>, <<"1", "2", ":", "x", "x">>,
     <<"0", "0", ":", ":", "0", "5">>, <<".", "5">>}
\* other strings the parser accepts: MM:SS, bare seconds, a fraction, a sign
OtherTimes ==
    {<<"0", "1", ":", "3", "0">>, <<"4", "2">>,
     <<"0", "0", ":", "0", "0", ":", "0", "7", ".", "5", "0">>,
     <<"-", "0", "1", ":", "0", "0", ":", "0", "0">>}

\* a time string is parsed and the seconds are formatted again
time_round_trip ==
    /\ \E time_str \in WellFormed \cup Malformed \cup OtherTimes :
          calc' = [fn |-> "time_round_trip",
                   args |-> time_str,
                   out |-> <<time_to_seconds(time_str),
                             seconds_to_time(time_to_seconds(time_str))>>]
    /\ UNCHANGED pipelineVars

\* config.py 45
FFMPEG_PATH == "ffmpeg"

\* variant for C13
pix_fmt_always_8bit(bits) == "yuv420p"

\* build_ffmpeg_command 312-315
video_codec(vcodec) == IF vcodec = "x264" THEN "libx264" ELSE "libx265"

\* build_ffmpeg_command 318-321
pix_fmt(bits) == IF bits = "10" THEN "yuv420p10le" ELSE "yuv420p"

\* variant for C14
resolution_map_square_576 ==
    ("240" :> "426x240") @@ ("360" :> "640x360") @@ ("480" :> "854x480")
        @@ ("576" :> "768x576") @@ ("720" :> "1280x720")
        @@ ("1080" :> "1920x1080")

\* build_ffmpeg_command 326-333
resolution_map ==
    ("240" :> "426x240") @@ ("360" :> "640x360") @@ ("480" :> "854x480")
        @@ ("576" :> "1024x576") @@ ("720" :> "1280x720")
        @@ ("1080" :> "1920x1080")

\* build_ffmpeg_command 307-351: the argument list, in the order of the
\* extend and append calls
build_ffmpeg_command(input, output, s) ==
    <<FFMPEG_PATH, "-i", input>>
        \o <<"-c:v", video_codec(s.vcodec)>>
        \o <<"-pix_fmt", pix_fmt(s.bits)>>
        \o <<"-crf", s.crf>>
        \o (IF s.resolution \in DOMAIN resolution_map
            THEN <<"-s", resolution_map[s.resolution]>> ELSE <<>>)
        \o <<"-c:a", "aac", "-b:a", "128k">>
        \o <<"-preset", "medium">>
        \o <<"-y">>
        \o <<output>>

\* the values the settings menus offer (commands/settings.py 160-213), crf
\* sampled from the 0..51 the encoder accepts
LegalResolutions == {"240", "360", "480", "576", "720", "1080"}
LegalCodecs == {"x264", "x265"}
LegalBits == {"8", "10"}
LegalCrf == {"0", "21", "28", "30", "40", "51"}
LegalModes == {"document", "video"}
\* resolution classes outside the table
OtherResolutions == {"144", "1440", "2160", ""}
CommandInputs == {"temp/a.mkv"}
CommandOutputs == {"temp/encoded_a.mp4"}

\* encode_video 28 builds the command from the caller's settings
build_command ==
    /\ \E input \in CommandInputs, output \in CommandOutputs,
          r \in LegalResolutions \cup OtherResolutions, v \in LegalCodecs,
          b \in LegalBits, q \in LegalCrf :
          LET s == [DEFAULT_SETTINGS EXCEPT !.resolution = r, !.vcodec = v,
                                            !.bits = b, !.crf = q]
          IN  calc' = [fn |-> "build_ffmpeg_command",
                       args |-> <<input, output, s>>,
                       out |-> build_ffmpeg_command(input, output, s)]
    /\ UNCHANGED pipelineVars

NextFunctions ==
    \/ update_encoding_progress
    \/ time_round_trip
    \/ build_command

InitFunctions ==
    /\ InitJobs
    /\ env = [jobs |-> {}, concurrent |-> FALSE, trace |-> FALSE, ticks |-> 0,
              steps |-> {1}, samples |-> 0, faults |-> 0]
    /\ user_settings = DEFAULT_SETTINGS

SpecFunctions == InitFunctions /\ [][NextFunctions]_vars

(***************************************************************************)
(* commands/settings.py, models/user_settings.py: the settings menu        *)
(***************************************************************************)
\* everything but user_settings, cb and lastWrite
menuFrame ==
    <<env, PYROGRAM_AVAILABLE, calc, mtproto_client, nfaults, fsVars, msgVars,
      dlVars, hmVars, jobVars, encVars, monVars, pc>>

\* Callback data is the sequence of its fields between "_": data.split("_").
\* data.startswith("res_") holds iff the first field is "res" and a second
\* one follows; data.split("_")[1] is the second field.
CallbackData ==
    {<<"toggle", "upload", "mode">>, <<"set", "resolution">>,
     <<"close", "settings">>, <<"back", "to", "settings">>,
     <<"res", "720">>, <<"res", "9999">>, <<"res", "">>,
     <<"vcodec", "x264">>, <<"bits", "8">>, <<"bits", "12">>,
     <<"crf", "28">>, <<"crf", "abc">>}

startswith(data, field) == Len(data) >= 2 /\ data[1] = field

\* variant for C16
update_user_setting_whole_row(row, setting_key, setting_value) ==
    [DEFAULT_SETTINGS EXCEPT ![setting_key] = setting_value]

\* update_user_setting 79-95: UPDATE user_settings SET {setting_key} = ?
\* WHERE user_id = ?, which changes nothing when no row matches
update_user_setting(row, setting_key, setting_value) ==
    IF row = NoRow THEN row ELSE [row EXCEPT ![setting_key] = setting_value]

\* handle_settings_callback 93-135: the column the data writes and the
\* value written, or no write; read tells whether get_user_settings at 94
\* returns the row
SettingWrite(data, read) ==
    IF data = <<"toggle", "upload", "mode">>
    THEN <<"upload_mode",
           IF get_user_settings(read).upload_mode = "document"
           THEN "video" ELSE "document">>
    ELSE IF data \in {<<"set", "resolution">>, <<"set", "vcodec">>,
                      <<"set", "bits">>, <<"set", "crf">>,
                      <<"set", "thumbnail">>, <<"set", "aspect", "ratio">>}
    THEN <<>>
    ELSE IF startswith(data, "res") THEN <<"resolution", data[2]>>
    ELSE IF startswith(data, "vcodec") THEN <<"vcodec", data[2]>>
    ELSE IF startswith(data, "bits") THEN <<"bits", data[2]>>
    ELSE IF startswith(data, "crf") THEN <<"crf", data[2]>>
    ELSE <<>>

\* handle_settings_callback 81-87, up to the await of query.answer()
settings_callback(h) ==
    /\ cb[h].pc = "idle"
    /\ cb[3 - h].pc = "idle" \/ env.concurrent
    /\ \E data \in CallbackData :
          cb' = [cb EXCEPT ![h] = [pc |-> "answer", data |-> data, updated |-> FALSE]]
    /\ UNCHANGED <<user_settings, lastWrite, menuFrame>>

\* query.answer() returns or raises; 89-145: the branch of the data, up to
\* its await; updated tells whether update_user_setting ran to its
\* logger.info at 92.  No await lies between get_user_settings and
\* update_user_setting, so the read and the UPDATE are one step.  The UPDATE
\* is lost when it raises (caught at 94-95 of user_settings.py).
settings_dispatch(h) ==
    /\ cb[h].pc = "answer"
    /\ \E ok \in BOOLEAN, read \in BOOLEAN, committed \in BOOLEAN :
          LET w == SettingWrite(cb[h].data, read)
          IN  IF ~ok
              THEN /\ cb' = [cb EXCEPT ![h] = [pc |-> "idle", data |-> NoData, updated |-> FALSE]]
                   /\ UNCHANGED <<user_settings, lastWrite>>
              ELSE /\ cb' = [cb EXCEPT ![h].pc = "menu",
                                          ![h].updated = w # <<>> /\ committed]
                   /\ IF w # <<>> /\ committed
                      THEN /\ user_settings' =
                                  update_user_setting(user_settings, w[1], w[2])
                           /\ lastWrite' =
                                  IF user_settings = NoRow THEN lastWrite
                                  ELSE [lastWrite EXCEPT ![w[1]] = w[2]]
                      ELSE UNCHANGED <<user_settings, lastWrite>>
    /\ UNCHANGED menuFrame

\* refresh_settings_menu 274-, the show_*_menu functions and the caption
\* edits: the message is edited, or the edit raises; the handler returns
settings_menu_shown(h) ==
    /\ cb[h].pc = "menu"
    /\ cb' = [cb EXCEPT ![h] = [pc |-> "idle", data |-> NoData, updated |-> FALSE]]
    /\ UNCHANGED <<user_settings, lastWrite, menuFrame>>

\* commands/start.py 10-18 with create_default_settings 7-45: /start inserts
\* the default row unless the user has one; a failing INSERT is swallowed
start_command ==
    /\ env.concurrent \/ \A h \in Handlers : cb[h].pc = "idle"
    /\ user_settings = NoRow
    /\ \E inserted \in BOOLEAN :
          user_settings' = IF inserted THEN DEFAULT_SETTINGS ELSE user_settings
    /\ UNCHANGED <<cb, lastWrite, menuFrame>>

NextSettings ==
    \/ \E h \in Handlers :
          \/ settings_callback(h)
          \/ settings_dispatch(h)
          \/ settings_menu_shown(h)
    \/ start_command

\* two settings interactions of one user whose handlers overlap; the user
\* has run /start before (the default row exists) or has not
InitSettings ==
    /\ InitJobs
    /\ env = [jobs |-> {}, concurrent |-> TRUE, trace |-> FALSE, ticks |-> 0,
              steps |-> {1}, samples |-> 0, faults |-> 0]
    /\ user_settings \in {DEFAULT_SETTINGS, NoRow}

SpecSettings == InitSettings /\ [][NextSettings]_vars

(***************************************************************************)
(* Properties                                                              *)
(***************************************************************************)
Returned(j) == pc[j] = "done"
DownloadInProgress(j) ==
    pc[j] \in {"download_media", "bot_api", "bot_api_transfer", "mtproto",
               "mtproto_init", "mtproto_ready", "mtproto_transfer",
               "mtproto_except", "download_except"}
UploadInProgress(j) ==
    pc[j] \in {"upload", "uploading", "upload_result", "upload_except"}
InProgress(j) == pc[j] \notin {"idle", "done", "escaped"}
EmitTimes(j) == [i \in 1..Len(emits[j]) |-> emits[j][i][1]]
EmittedSamples(j) == {emits[j][i][2] : i \in 1..Len(emits[j])}

\* C1: once handle_media has returned for a job, nothing that the job's
\* pipeline wrote (input, output, partial files) is left on disk.
C1_NothingLeftAtReturn ==
    \A j \in Jobs : Returned(j) => \A p \in AllPaths : j \notin writers[p]

\* C2: the phases of one job never overlap: an encoder subprocess exists
\* only once the download has returned a file path, and it was started with
\* that file; during the download no encoder and no monitor exists and no
\* file path has been returned; during the upload no encoder is running, no
\* monitor is on and encode_video has returned an output path.
C2_PhasesInSequence ==
    \A j \in Jobs :
       /\ proc[j] # "none" => ~DownloadInProgress(j) /\ pc[j] # "idle"
       /\ pc[j] = "encoding" => file_path[j] # NoPath
       /\ DownloadInProgress(j)
             => proc[j] = "none" /\ monitor[j] = "off" /\ file_path[j] = NoPath
       /\ UploadInProgress(j)
             => proc[j] = "none" /\ monitor[j] = "off" /\ output_path[j] # NoPath
C2_Uploading ==
    \E j \in Jobs : pc[j] = "uploading" /\ output_path[j] # NoPath

\* C3: download_media picks the Bot API helper first for a file of exactly
\* TELEGRAM_BOT_API_LIMIT bytes, and that is the first transport to transfer;
\* one byte more picks MTProto when pyrogram is importable and enabled, and
\* then no Bot API transfer is ever started; without MTProto no transfer is
\* started at all and download_media ends without a file, showing the
\* too-large-for-Bot-API message unless a message edit itself failed.
C3_TransportSelection ==
    \A j \in Jobs :
       /\ file_size[j] = TELEGRAM_BOT_API_LIMIT /\ route[j] # <<>>
             => /\ route[j][1] = "bot_api"
                /\ xfers[j] # <<>> => xfers[j][1] = "bot_api"
       /\ file_size[j] = TELEGRAM_BOT_API_LIMIT + 1 /\ route[j] # <<>>
             => IF PYROGRAM_AVAILABLE /\ USE_MTPROTO_FOR_LARGE_FILES
                THEN /\ route[j][1] = "mtproto"
                     /\ \A i \in 1..Len(xfers[j]) : xfers[j][i] = "mtproto"
                ELSE /\ route[j][1] = "bot_api"
                     /\ xfers[j] = <<>>
                     /\ file_path[j] = NoPath
                     /\ pc[j] = "downloaded" /\ ~editRaised[j]
                           => status[j] = "TooLargeBotApi"
C3_OverLimitFetchedByMTProto ==
    \E j \in Jobs :
       /\ pc[j] = "downloaded"
       /\ file_size[j] = TELEGRAM_BOT_API_LIMIT + 1
       /\ xfers[j] = <<"mtproto">>
       /\ file_path[j] # NoPath

\* C4: a file declared larger than MAX_FILE_SIZE never reaches a download
\* helper or a transfer: handle_media returns at once, with the
\* file-too-large message shown (or its reply call raised).
C4_OverCapRejected ==
    \A j \in Jobs :
       file_size[j] > MAX_FILE_SIZE
          => /\ route[j] = <<>>
             /\ xfers[j] = <<>>
             /\ pc[j] \in {"done", "escaped"}
             /\ pc[j] = "done" => status[j] = "FileTooLarge"
             /\ pc[j] = "escaped" => editRaised[j]
C4_Rejected ==
    \E j \in Jobs :
       /\ file_size[j] = MAX_FILE_SIZE + 1
       /\ pc[j] = "done"
       /\ status[j] = "FileTooLarge"

\* C5: no exception raised inside download_media ever reaches handle_media.
C5_DownloadNeverRaises ==
    \A j \in Jobs : exc[j] # "download_media"

\* C6: when encode_video has returned a path, the encoder exited with code 0
\* and the file at that path is complete, not empty.
C6_PathOnlyForNonEmptyOutput ==
    \A j \in Jobs :
       pc[j] = "encoded" /\ output_path[j] # NoPath
          => proc[j] = "exit0" /\ disk[output_path[j]] = "full"

\* C7: no encoder subprocess is still running once more than
\* ENCODING_TIMEOUT seconds have passed since it was started.
C7_StoppedAtTimeout ==
    \A j \in Jobs :
       proc[j] = "running" => now[j] - encStart[j] <= ENCODING_TIMEOUT

\* C8: while two jobs are in progress, no path holds data written by both.
C8_ArtifactsIsolated ==
    \A j \in Jobs, k \in Jobs :
       j # k /\ InProgress(j) /\ InProgress(k)
          => \A p \in AllPaths : ~({j, k} \subseteq writers[p])

\* C9: two consecutive progress updates of a job are at least 3 seconds
\* apart, and when the monitor saw samples at t0, t0+1, t0+2 and t0+4 it
\* emitted updates at t0 and t0+4 only.
C9_RateLimited ==
    \A j \in Jobs :
       /\ \A i \in 1..(Len(emits[j]) - 1) :
             emits[j][i + 1][1] - emits[j][i][1] >= 3
       /\ \A t0 \in ClockStart..(ClockStart + MaxTicks) :
             polls[j] = <<t0, t0 + 1, t0 + 2, t0 + 4>>
                => EmitTimes(j) = <<t0, t0 + 4>>
C9_FourPolls ==
    \E j \in Jobs :
       /\ polls[j] = <<ClockStart, ClockStart + 1, ClockStart + 2, ClockStart + 4>>
       /\ EmitTimes(j) = <<ClockStart, ClockStart + 4>>

\* C10: when run_ffmpeg_with_progress has returned for a monitored encode,
\* the first and the last progress record the encoder wrote have both been
\* emitted as updates.
C10_FirstAndLastEmitted ==
    \A j \in Jobs :
       pc[j] = "encoded" /\ duration[j] # NoDuration /\ nsamples[j] > 0
          => {1, nsamples[j]} \subseteq EmittedSamples(j)

\* C11: for every current-time sample, negative ones and ones beyond the
\* total included, the percentage update_encoding_progress computes lies in
\* [0, 100], is 100 when the sample has reached the total, and does not
\* decrease from one sample to a later one.
C11_PercentClamped ==
    calc.fn = "update_encoding_progress" =>
        LET total == calc.args[3]
        IN  /\ \A i \in 1..2 :
                  /\ calc.out[i] >= 0
                  /\ calc.out[i] <= 100000
                  /\ calc.args[i] >= total => calc.out[i] = 100000
            /\ calc.out[1] <= calc.out[2]

Dimensions(r) ==
    CASE r = "240" -> "426x240"
      [] r = "360" -> "640x360"
      [] r = "480" -> "854x480"
      [] r = "576" -> "1024x576"
      [] r = "720" -> "1280x720"
      [] r = "1080" -> "1920x1080"

\* C13: for legal settings build_ffmpeg_command returns exactly the encoder,
\* -i input, -c:v with libx264 for x264 and libx265 for x265, -pix_fmt with
\* yuv420p for 8 bits and yuv420p10le for 10, -crf with the quality, -s with
\* the dimensions of the resolution class, -c:a aac, -b:a 128k, -preset
\* medium, -y and the output, in this order.
C13_ExactCommand ==
    calc.fn = "build_ffmpeg_command"
        /\ calc.args[3].resolution \in LegalResolutions =>
        LET given == calc.args[3]
        IN  calc.out =
                <<"ffmpeg", "-i", calc.args[1],
                  "-c:v", CASE given.vcodec = "x264" -> "libx264"
                            [] given.vcodec = "x265" -> "libx265",
                  "-pix_fmt", CASE given.bits = "8" -> "yuv420p"
                                [] given.bits = "10" -> "yuv420p10le",
                  "-crf", given.crf,
                  "-s", Dimensions(given.resolution),
                  "-c:a", "aac", "-b:a", "128k", "-preset", "medium", "-y",
                  calc.args[2]>>

C13_Built480p ==
    /\ calc.fn = "build_ffmpeg_command"
    /\ calc.args[3].vcodec = "x265" /\ calc.args[3].resolution = "480"
    /\ calc.args[3].crf = "28" /\ calc.args[3].bits = "8"
    /\ calc.out =
          <<"ffmpeg", "-i", "temp/a.mkv", "-c:v", "libx265", "-pix_fmt",
            "yuv420p", "-crf", "28", "-s", "854x480", "-c:a", "aac", "-b:a",
            "128k", "-preset", "medium", "-y", "temp/encoded_a.mp4">>

\* C14: each of the six resolution classes puts exactly its dimensions after
\* one -s; for a class outside the table the command is still produced, with
\* no -s in it.
C14_ResolutionTable ==
    calc.fn = "build_ffmpeg_command" =>
        LET r == calc.args[3].resolution
            at == {i \in 1..Len(calc.out) : calc.out[i] = "-s"}
        IN  IF r \in {"240", "360", "480", "576", "720", "1080"}
            THEN /\ Cardinality(at) = 1
                 /\ \A i \in at : calc.out[i + 1] = Dimensions(r)
            ELSE /\ at = {}
                 /\ Len(calc.out) = 17
                 /\ calc.out[1] = "ffmpeg"
                 /\ calc.out[Len(calc.out)] = calc.args[2]

C14_UnknownClassHasNoSize ==
    /\ calc.fn = "build_ffmpeg_command"
    /\ calc.args[3].resolution = "2160"
    /\ Len(calc.out) = 17
    /\ \A i \in 1..Len(calc.out) : calc.out[i] # "-s"

RECURSIVE Join(_)
Join(chars) == IF chars = <<>> THEN "" ELSE chars[1] \o Join(Tail(chars))
\* the quality values the encoder accepts: "0" to "51"
CrfValues == {Join(NatStr(n)) : n \in 0..51}

\* C15: whatever callback data handle_settings_callback is called with,
\* every field of the stored record holds one of its legal values: codec
\* x264 or x265, one of the six resolution classes, 8 or 10 bits, upload
\* mode video or document, a CRF from 0 to 51.
C15_OnlyLegalValuesStored ==
    user_settings # NoRow =>
    /\ user_settings.vcodec \in {"x264", "x265"}
    /\ user_settings.resolution \in {"240", "360", "480", "576", "720", "1080"}
    /\ user_settings.bits \in {"8", "10"}
    /\ user_settings.upload_mode \in {"video", "document"}
    /\ user_settings.crf \in CrfValues

\* C16: while settings handlers of one user overlap, every field that has
\* been written holds the value of the last write to it, and every field
\* that has not been written holds the value it had before.
C16_LastWriteWins ==
    user_settings # NoRow =>
        \A c \in Columns :
            user_settings[c] =
                IF lastWrite[c] = None THEN DEFAULT_SETTINGS[c] ELSE lastWrite[c]

C16_TwoFieldsWrittenWhileOverlapping ==
    /\ \A h \in Handlers : cb[h].pc = "menu"
    /\ cb[1].data = <<"res", "720">> /\ cb[2].data = <<"crf", "28">>
    /\ user_settings = [DEFAULT_SETTINGS EXCEPT !.resolution = "720",
                                                !.crf = "28"]

\* C17: every send call made for a job is send_video when the job's
\* upload_mode is "video" and send_document otherwise; so never both.
C17_ModeSelectsUpload ==
    \A j \in Jobs :
       uploads[j] \subseteq
          {IF settings[j].upload_mode = "video" THEN "send_video"
                                                ELSE "send_document"}
C17_SentAsVideo ==
    \E j \in Jobs :
       /\ settings[j].upload_mode = "video"
       /\ uploads[j] = {"send_video"}
       /\ result[j] = "delivered"

C19_SuccessShownIffDelivered ==
    \A j \in Jobs :
       pc[j] = "done" /\ status[j] # "FileTooLarge"
          => (status[j] = "ProcessingComplete" <=> result[j] = "delivered")

\* C20: no exception leaves handle_media.
C20_NothingEscapes ==
    \A j \in Jobs : pc[j] # "escaped"

\* C21: within one job the encoder subprocess is launched at most once and
\* upload_encoded_video is called at most once, and only after the one encode
\* has returned an output path.
C21_NoRetry ==
    \A j \in Jobs :
       /\ attempts[j].encode <= 1
       /\ attempts[j].upload <= 1
       /\ attempts[j].upload = 1
             => attempts[j].encode = 1 /\ result[j] \notin {"no_file", "no_output"}
       /\ UploadInProgress(j) => output_path[j] # NoPath

C21_FailedEncodeNotRetried ==
    \E j \in Jobs :
       /\ pc[j] = "done"
       /\ result[j] = "no_output"
       /\ attempts[j] = [encode |-> 1, upload |-> 0]

\* C22: every progress update monitor_progress emits carries the most recent
\* sample the encoder had written to the progress file when it was polled.
C22_LatestSampleReported ==
    [][\A j \in Jobs :
          Len(emits'[j]) > Len(emits[j])
             => emits'[j][Len(emits'[j])][2] = progress[Len(progress)][2]]_vars

\* C23: once run_ffmpeg_with_progress has returned, by whatever path, the
\* monitor task of the job has stopped.
C23_MonitorStoppedAtReturn ==
    \A j \in Jobs : monitor[j] = "on" => pc[j] \in {"encoding", "run_except"}

\* C24: when download_media has returned without a file after the MTProto
\* helper was entered (and no exception reached download_media's own except
\* clause), the Bot API helper was called last; for a file above the Bot API
\* limit that helper made no transfer and its size-limit text is shown.
C24_FallsBackToBotApi ==
    \A j \in Jobs :
       (/\ pc[j] = "downloaded"
        /\ file_path[j] = NoPath
        /\ \E i \in DOMAIN route[j] : route[j][i] = "mtproto"
        /\ status[j] # "DownloadFailedExc")
          => /\ route[j][Len(route[j])] = "bot_api"
             /\ OverBotApiLimit(file_size[j])
                   => /\ status[j] = "TooLargeBotApi"
                      /\ \A i \in DOMAIN xfers[j] : xfers[j][i] # "bot_api"

\* C25: when handle_media has returned because the download or the encode
\* produced no file, the status the user sees is one of the cause-specific
\* texts written by download_media or run_ffmpeg_with_progress.
C25_CauseShownAtReturn ==
    \A j \in Jobs :
       pc[j] = "done" /\ result[j] \in {"no_file", "no_output"}
          => status[j] \in {"FileTooLargeMax", "TooLargeBotApi", "NoPyrogram",
                            "ClientInitFailed", "DownloadFailedExc",
                            "EncodeFailedStderr", "EncodeErrorExc"}

\* C26: while encode_video runs a subprocess for an input whose duration the
\* probe could not determine, no monitor is on and no progress update has been
\* polled, emitted or shown; the encode returns an output path only if the
\* subprocess exited with code 0, and reports the encoder's failure only if it
\* exited with another code.
C26_NoMonitorWithoutDuration ==
    \A j \in Jobs :
       InEncodeVideo(j) /\ proc[j] # "none" /\ duration[j] = NoDuration
          => /\ monitor[j] = "off"
             /\ polls[j] = <<>> /\ emits[j] = <<>>
             /\ status[j] # "EncodingProgress"
             /\ pc[j] = "encoded" /\ output_path[j] # NoPath => proc[j] = "exit0"
             /\ pc[j] = "encoded" /\ status[j] = "EncodeFailedStderr"
                   => proc[j] = "exit1"

C26_EncodedWithoutDuration ==
    \E j \in Jobs :
       /\ pc[j] = "encoded"
       /\ duration[j] = NoDuration
       /\ proc[j] = "exit0"
       /\ output_path[j] # NoPath
       /\ status[j] = "EncodeCompleted"

\* C27: for a current time that is not negative, update_encoding_progress
\* shows the remaining time total - current (never below zero) whenever the
\* percentage is above 0, and shows the placeholder only at a percentage of 0.
C27_RemainingShownAbovePercentZero ==
    calc.fn = "update_encoding_progress" /\ calc.args[2] >= 0 =>
        LET current == calc.args[2]
            total == calc.args[3]
            percent == calc.out[2]
            shown == calc.out[4]
            left == IF total > current THEN total - current ELSE 0
        IN  /\ percent > 0 => shown = seconds_to_time(left)
            /\ shown = Calculating => percent = 0

\* C28: within one call of download_media the fallback between the two
\* helpers does not come round again: no hand-over from one helper to the
\* other happens a second time.
C28_FallbackDoesNotCycle ==
    \A j \in Jobs :
       \A i, k \in 1..(Len(route[j]) - 1) :
          i < k => ~(/\ route[j][i] = route[j][k]
                     /\ route[j][i + 1] = route[j][k + 1])

\* C29: a job has a transfer running on the shared MTProto client only when
\* the client's start() has completed successfully.
C29_TransferOnlyOnStartedClient ==
    \A j \in Jobs : pc[j] = "mtproto_transfer" => mtproto_client = "ready"

\* C30: when handle_settings_callback has called update_user_setting for a
\* field and a value taken from the callback data, and the call ran to its
\* end without raising, get_user_settings returns that value for that field.
C30_WriteIsReadBack ==
    [][\A h \in Handlers :
          (/\ cb[h].pc = "answer"
           /\ cb'[h].pc = "menu"
           /\ cb'[h].updated
           /\ cb[h].data[1] # "toggle")
             => LET w == SettingWrite(cb[h].data, TRUE)
                IN  get_user_settings(TRUE)'[w[1]] = w[2]]_vars

====
